---- MODULE Spec2Model ----
(***************************************************************************)
(* Model of src/commands/generateProject.ts: the "generate a MicroProfile  *)
(* Starter project" command.  One run of generateProject() is modelled:    *)
(* the async function body (pc) and the extract-zip completion callback    *)
(* (cbPc), which runs after generateProject() has already returned.        *)
(* Every await is a point where the environment chooses an outcome.        *)
(***************************************************************************)
EXTENDS Integers, Sequences, FiniteSets

VARIABLES
  pc,             \* position of generateProject(): "start" .. "done" (returned)
  cbPc,           \* position of the extract callback: "idle" .. "done"
  locals,         \* the consts of generateProject() and of the callback
  promptLog,      \* prompts shown so far, with what each returned
  requests,       \* HTTP requests issued so far
  inflight,       \* network / file operations started and not yet settled
  fs,             \* paths that exist on disk
  fsLog,          \* filesystem operations completed so far
  messages,       \* vscode.window.showErrorMessage calls so far
  wsFolders,      \* vscode.workspace.workspaceFolders
  initialFolders, \* wsFolders when the command was invoked
  hostCalls,      \* updateWorkspaceFolders / executeCommand calls so far
  cbRejected,     \* the callback's promise rejected (nobody handles it)
  failures,       \* number of failed steps so far
  events          \* order of I/O starts, I/O ends and prompts

vars == <<pc, cbPc, locals, promptLog, requests, inflight, fs, fsLog, messages,
          wsFolders, initialFolders, hostCalls, cbRejected, failures, events>>

----------------------------------------------------------------------------
(* Bounds of the model *)

\* number of folders the workspace may hold when the command is invoked
MaxFolders == 1
\* number of specifications the newest MicroProfile version offers
MaxSpecs == 2

----------------------------------------------------------------------------
(* JavaScript values *)

\* undefined is the empty tuple, any other value v is <<v>>
Undefined == <<>>
Some(v) == <<v>>

\* the === undefined test after each prompt (lines 28, 33, 38, 44, 49, 60, 67)
IsCancelled_Never(v) == FALSE
IsCancelled(v) == v = Undefined

\* err !== undefined (line 107)
ExtractFailed_Never(err) == FALSE
ExtractFailed(err) == err # Undefined

\* status >= 400 && status < 600 (line 17)
BadStatus_OffByOne(status) == status > 400 /\ status < 600
BadStatus(status) == status >= 400 /\ status < 600

\* a value inside a template literal: undefined prints as "undefined"
TemplateString(v) == IF v = Undefined THEN "undefined" ELSE v[1]

\* `${artifactId}.zip` (line 82)
ZipName(artifactId) == [base |-> TemplateString(artifactId), ext |-> ".zip"]
\* path.join(dir, name) (lines 84, 119); a name is a base and an extension
PathJoin(dir, name) == [dir |-> dir, base |-> name.base, ext |-> name.ext]
ZipPath(l) == PathJoin(l.targetFolder[1], ZipName(l.artifactId))
\* vscode.Uri.file(path.join(targetDirString, artifactId)) (line 119)
UriPath(l) == PathJoin(l.targetFolder[1], [base |-> TemplateString(l.artifactId), ext |-> ""])

\* JSON.stringify of an object: the properties whose value is undefined are
\* dropped, the others are written under their key
JSONstringify(obj) ==
  [k \in {key \in DOMAIN obj : obj[key] # Undefined} |-> obj[k][1]]

\* the object literal of lines 73..80
RequestPayload_Swapped(l) ==
  [groupId |-> l.groupId, artifactId |-> l.artifactId,
   mpVersion |-> l.mpServer, supportedServer |-> l.mpVersion,
   javaSEVersion |-> l.javaSEVersion, selectedSpecs |-> l.mpSpecifications]
RequestPayload(l) ==
  [groupId |-> l.groupId, artifactId |-> l.artifactId,
   mpVersion |-> l.mpVersion, supportedServer |-> l.mpServer,
   javaSEVersion |-> l.javaSEVersion, selectedSpecs |-> l.mpSpecifications]

\* util.downloadFile(requestOptions, zipPath) resolved: the response body is
\* on disk at zipPath
DownloadFile(files, zipPath) == files \cup {zipPath}
\* util.deleteFile(zipPath) resolved: the file is gone
DeleteFile(files, zipPath) == files \ {zipPath}
\* extract(zipPath, {dir}) called back without err: the project folder exists
Extract(files, projectDir) == files \cup {projectDir}

SupportMatrixUrl == "https://start.microprofile.io/api/3/supportMatrix"
ProjectUrl == "https://start.microprofile.io/api/2/project"

\* the texts given to showErrorMessage (lines 109, 115, 139, 142); file is the
\* name spliced into the text, empty where the text is fixed
NoFile == [base |-> "", ext |-> ""]
ConnectMsg ==
  [text |-> "Failed to connect to the MicroProfile Starter. Please check your network connection and try again.",
   file |-> NoFile]
GenericMsg == [text |-> "Failed to generate a MicroProfile Starter project", file |-> NoFile]
ExtractMsg == [text |-> "Failed to extract the MicroProfile Starter project.", file |-> NoFile]
DeleteMsg(zipName) == [text |-> "Failed to delete file ", file |-> zipName]

\* OPEN_NEW_PROJECT_OPTIONS (properties.ts)
ADD_CURRENT_WORKSPACE == "Add to current workspace"
OPEN_NEW_WINDOW == "Open in new window"

----------------------------------------------------------------------------
(* Inputs: what the remote service and the user may answer *)

Statuses == {200, 399, 400, 500, 599, 600}

AllSpecs == <<"CONFIG", "JWT_AUTH", "METRICS", "OPEN_API">>

\* mpSupportMatrix.configs: mp version -> {supportedServers, specs}
Configs ==
  [v \in {"MP12", "MP32"} |->
     IF v = "MP12"
     THEN [supportedServers |-> {"LIBERTY"}, specs |-> {"CONFIG"}]
     ELSE [supportedServers |-> {"LIBERTY", "PAYARA_MICRO"},
           specs |-> {AllSpecs[i] : i \in 1..MaxSpecs}]]

\* bodies the GET may carry: not JSON, JSON without configs, a support matrix
ResponseBodies ==
  { [json |-> FALSE, configs |-> Undefined],
    [json |-> TRUE, configs |-> Undefined],
    [json |-> TRUE, configs |-> Some(Configs)] }

GroupIds == {"com.acme", ""}
ArtifactIds == {"demo", "app"}
TargetFolders == {"/home/u/projects", "/tmp/out"}
JavaSEVersions(mpVersion, mpServer) ==
  IF mpVersion = "MP12" THEN {"SE8"} ELSE {"SE8", "SE11"}

\* a prompt returns one of the offered values, or undefined, or rejects
PromptOutcomes(choices) ==
  {[threw |-> FALSE, ret |-> Some(c)] : c \in choices}
    \cup {[threw |-> FALSE, ret |-> Undefined], [threw |-> TRUE, ret |-> Undefined]}

WorkspaceUris ==
  <<[dir |-> "/home/u/projects", base |-> "demo", ext |-> ""],
    [dir |-> "/ws", base |-> "other", ext |-> ""],
    [dir |-> "/ws", base |-> "third", ext |-> ""]>>

\* duplicate-free lists of at most MaxFolders workspace folders
FolderLists ==
  UNION {{s \in [1..n -> {WorkspaceUris[i] : i \in 1..MaxFolders}] :
            \A i, j \in 1..n : i # j => s[i] # s[j]} : n \in 0..MaxFolders}

----------------------------------------------------------------------------
(* State after the command is invoked, before its first statement *)

Init ==
  /\ pc = "start"
  /\ cbPc = "idle"
  /\ locals = [mpSupportResponse |-> Undefined, mpConfigurations |-> Undefined,
               groupId |-> Undefined, artifactId |-> Undefined,
               mpVersion |-> Undefined, mpServer |-> Undefined,
               javaSEVersion |-> Undefined, mpSpecifications |-> Undefined,
               targetFolder |-> Undefined, err |-> Undefined,
               selection |-> Undefined]
  /\ promptLog = <<>>
  /\ requests = <<>>
  /\ inflight = {}
  /\ fs = {}
  /\ fsLog = <<>>
  /\ messages = <<>>
  /\ initialFolders \in FolderLists
  /\ wsFolders = initialFolders
  /\ hostCalls = <<>>
  /\ cbRejected = FALSE
  /\ failures = 0
  /\ events = <<>>

hostVars == <<wsFolders, initialFolders, hostCalls, cbRejected>>

----------------------------------------------------------------------------
(* generateProject(), lines 9..145 *)

\* the catch block (lines 135..144): one message, chosen by the error's name
Catch(name) ==
  /\ messages' = Append(messages, IF name = "FetchError" THEN ConnectMsg ELSE GenericMsg)
  /\ failures' = failures + 1
  /\ pc' = "done"

\* a return statement of a cancelled prompt (lines 29..68), and the end of the
\* try block (line 134)
Return_AsFailure ==
  /\ pc' = "done"
  /\ messages' = Append(messages, GenericMsg)
  /\ UNCHANGED failures
Return ==
  /\ pc' = "done"
  /\ UNCHANGED <<messages, failures>>

Goto(next) ==
  /\ pc' = next
  /\ UNCHANGED <<messages, failures>>

\* fetch(supportMatrix, GET) is called (line 11)
FetchSupportMatrix ==
  /\ pc = "start"
  /\ requests' = Append(requests, [method |-> "GET", url |-> SupportMatrixUrl, body |-> Undefined])
  /\ inflight' = inflight \cup {"GET"}
  /\ events' = Append(events, "GET.start")
  /\ pc' = "awaitFetch"
  /\ UNCHANGED <<cbPc, locals, promptLog, fs, fsLog, messages, failures, hostVars>>

\* the fetch settles: rejected (FetchError) or a response; the status test of
\* line 17; then mpSupportResponse.json() is called (line 21)
FetchSettled ==
  /\ pc = "awaitFetch"
  /\ inflight' = inflight \ {"GET"}
  /\ events' = Append(events, "GET.end")
  /\ \E rejected \in BOOLEAN, status \in Statuses :
       IF rejected
       THEN Catch("FetchError") /\ UNCHANGED locals
       ELSE /\ locals' = [locals EXCEPT !.mpSupportResponse = Some(status)]
            /\ IF BadStatus(status) THEN Catch("Error") ELSE Goto("json")
  /\ UNCHANGED <<cbPc, promptLog, requests, fs, fsLog, hostVars>>

\* json() settles (line 21); configs and Object.keys(configs) (lines 24, 25)
ParseSupportMatrix ==
  /\ pc = "json"
  /\ \E body \in ResponseBodies :
       IF ~body.json
       THEN Catch("FetchError") /\ UNCHANGED locals
       ELSE /\ locals' = [locals EXCEPT !.mpConfigurations = body.configs]
            /\ IF body.configs = Undefined
               THEN Catch("TypeError")
               ELSE Goto("askForGroupID")
  /\ UNCHANGED <<cbPc, promptLog, requests, inflight, fs, fsLog, hostVars, events>>

\* one prompt of lines 27..69: shown, answered, tested against undefined
Prompt(name, field, choices, next) ==
  /\ pc = name
  /\ events' = Append(events, name)
  /\ \E o \in PromptOutcomes(choices) :
       /\ promptLog' = Append(promptLog, [name |-> name, ret |-> o.ret, threw |-> o.threw])
       /\ IF o.threw
          THEN Catch("Error") /\ UNCHANGED locals
          ELSE /\ locals' = [locals EXCEPT ![field] = o.ret]
               /\ IF IsCancelled(o.ret) THEN Return ELSE Goto(next)
  /\ UNCHANGED <<cbPc, requests, inflight, fs, fsLog, hostVars>>

\* a property read of lines 43 and 54 throws a TypeError when
\* mpConfigurations[mpVersion] is undefined
ConfigOf(l) ==
  IF l.mpVersion # Undefined /\ l.mpVersion[1] \in DOMAIN l.mpConfigurations[1]
  THEN Some(l.mpConfigurations[1][l.mpVersion[1]])
  ELSE Undefined

ThrowTypeError(at) ==
  /\ pc = at
  /\ Catch("TypeError")
  /\ UNCHANGED <<cbPc, locals, promptLog, requests, inflight, fs, fsLog, hostVars, events>>

AskForGroupID == Prompt("askForGroupID", "groupId", GroupIds, "askForArtifactID")

AskForArtifactID == Prompt("askForArtifactID", "artifactId", ArtifactIds, "askForMPVersion")

AskForMPVersion ==
  Prompt("askForMPVersion", "mpVersion", DOMAIN locals.mpConfigurations[1], "askForMPServer")

AskForMPServer ==
  IF ConfigOf(locals) = Undefined
  THEN ThrowTypeError("askForMPServer")
  ELSE Prompt("askForMPServer", "mpServer", ConfigOf(locals)[1].supportedServers,
              "askForJavaSEVersion")

AskForJavaSEVersion ==
  Prompt("askForJavaSEVersion", "javaSEVersion",
         IF locals.mpVersion = Undefined \/ locals.mpServer = Undefined
         THEN {"SE8"}
         ELSE JavaSEVersions(locals.mpVersion[1], locals.mpServer[1]),
         "askForMPSpecifications")

AskForMPSpecifications ==
  IF ConfigOf(locals) = Undefined
  THEN ThrowTypeError("askForMPSpecifications")
  ELSE Prompt("askForMPSpecifications", "mpSpecifications",
              SUBSET ConfigOf(locals)[1].specs, "askForFolder")

AskForFolder == Prompt("askForFolder", "targetFolder", TargetFolders, "download")

\* lines 71..103: targetFolder.fsPath, the payload, and the download started
\* under the progress notification
SubmitRequest ==
  /\ pc = "download"
  /\ IF locals.targetFolder = Undefined
     THEN /\ Catch("TypeError")
          /\ UNCHANGED <<requests, inflight, events>>
     ELSE /\ requests' = Append(requests, [method |-> "POST", url |-> ProjectUrl,
                                           body |-> Some(JSONstringify(RequestPayload(locals)))])
          /\ inflight' = inflight \cup {"POST"}
          /\ events' = Append(events, "POST.start")
          /\ Goto("awaitDownload")
  /\ UNCHANGED <<cbPc, locals, promptLog, fs, fsLog, hostVars>>

\* names of the errors util.downloadFile may reject with
DownloadErrors == {"FetchError", "Error"}

\* the download settles (line 104).  Rejected: the catch block.  Resolved:
\* the archive is on disk, extract() is called (line 106) and
\* generateProject() returns without waiting for it
DownloadSettled ==
  /\ pc = "awaitDownload"
  /\ \E ok \in BOOLEAN, name \in DownloadErrors :
       IF ok
       THEN /\ fs' = DownloadFile(fs, ZipPath(locals))
            /\ fsLog' = Append(fsLog, [op |-> "write", path |-> ZipPath(locals), ok |-> TRUE])
            /\ inflight' = (inflight \ {"POST"}) \cup {"extract"}
            /\ events' = events \o <<"POST.end", "extract.start">>
            /\ cbPc' = "extracting"
            /\ Return
       ELSE /\ inflight' = inflight \ {"POST"}
            /\ events' = Append(events, "POST.end")
            /\ Catch(name)
            /\ UNCHANGED <<fs, fsLog, cbPc>>
  /\ UNCHANGED <<locals, promptLog, requests, hostVars>>

----------------------------------------------------------------------------
(* The extract callback, lines 106..134 *)

\* extract-zip calls back with err; on failure one message and nothing else
\* (lines 107..109), on success util.deleteFile(zipPath) is called (line 112)
ExtractSettled ==
  /\ cbPc = "extracting"
  /\ \E err \in {Undefined, Some("ExtractError")} :
       /\ locals' = [locals EXCEPT !.err = err]
       /\ fsLog' = Append(fsLog, [op |-> "extract", path |-> ZipPath(locals), ok |-> err = Undefined])
       /\ fs' = IF err = Undefined THEN Extract(fs, UriPath(locals)) ELSE fs
       /\ IF ExtractFailed(err)
          THEN /\ messages' = Append(messages, ExtractMsg)
               /\ failures' = failures + 1
               /\ inflight' = inflight \ {"extract"}
               /\ events' = Append(events, "extract.end")
               /\ cbPc' = "done"
          ELSE /\ inflight' = (inflight \ {"extract"}) \cup {"delete"}
               /\ events' = events \o <<"extract.end", "delete.start">>
               /\ cbPc' = "deleting"
               /\ UNCHANGED <<messages, failures>>
  /\ UNCHANGED <<pc, promptLog, requests, hostVars>>

\* util.deleteFile settles (lines 111..116); either way the callback goes on
\* to showInformationMessage (line 121)
DeleteSettled_WrongPath ==
  /\ cbPc = "deleting"
  /\ inflight' = inflight \ {"delete"}
  /\ events' = Append(events, "delete.end")
  /\ \E ok \in BOOLEAN :
       /\ fsLog' = Append(fsLog, [op |-> "delete", path |-> ZipPath(locals), ok |-> ok])
       /\ IF ok
          THEN /\ fs' = DeleteFile(fs, UriPath(locals))
               /\ UNCHANGED <<messages, failures>>
          ELSE /\ messages' = Append(messages, DeleteMsg(ZipName(locals.artifactId)))
               /\ failures' = failures + 1
               /\ UNCHANGED fs
  /\ cbPc' = "openPrompt"
  /\ UNCHANGED <<pc, locals, promptLog, requests, hostVars>>
DeleteSettled_Fatal ==
  /\ cbPc = "deleting"
  /\ inflight' = inflight \ {"delete"}
  /\ events' = Append(events, "delete.end")
  /\ \E ok \in BOOLEAN :
       /\ fsLog' = Append(fsLog, [op |-> "delete", path |-> ZipPath(locals), ok |-> ok])
       /\ IF ok
          THEN /\ fs' = DeleteFile(fs, ZipPath(locals))
               /\ cbPc' = "openPrompt"
               /\ UNCHANGED <<messages, failures>>
          ELSE /\ messages' = Append(messages, DeleteMsg(ZipName(locals.artifactId)))
               /\ failures' = failures + 1
               /\ cbPc' = "done"
               /\ UNCHANGED fs
  /\ UNCHANGED <<pc, locals, promptLog, requests, hostVars>>
DeleteSettled ==
  /\ cbPc = "deleting"
  /\ inflight' = inflight \ {"delete"}
  /\ events' = Append(events, "delete.end")
  /\ \E ok \in BOOLEAN :
       /\ fsLog' = Append(fsLog, [op |-> "delete", path |-> ZipPath(locals), ok |-> ok])
       /\ IF ok
          THEN /\ fs' = DeleteFile(fs, ZipPath(locals))
               /\ UNCHANGED <<messages, failures>>
          ELSE /\ messages' = Append(messages, DeleteMsg(ZipName(locals.artifactId)))
               /\ failures' = failures + 1
               /\ UNCHANGED fs
  /\ cbPc' = "openPrompt"
  /\ UNCHANGED <<pc, locals, promptLog, requests, hostVars>>

\* vscode.workspace.updateWorkspaceFolders(start, deleteCount, ...add):
\* the folders with deleteCount of them replaced by add at index start
UpdateWorkspaceFolders(folders, start, deleteCount, add) ==
  SubSeq(folders, 1, start) \o add \o SubSeq(folders, start + deleteCount + 1, Len(folders))

\* the arguments of line 129
WorkspaceEdit_Replace(uri) == [api |-> "updateWorkspaceFolders", start |-> 0, deleteCount |-> 1, uri |-> uri]
WorkspaceEdit(uri) == [api |-> "updateWorkspaceFolders", start |-> 0, deleteCount |-> 0, uri |-> uri]

\* the arguments of line 131
OpenFolderCommand(uri) == [api |-> "vscode.openFolder", uri |-> uri, newWindow |-> TRUE]

\* the answer to showInformationMessage (lines 121..127) and the branch taken
\* on it (lines 128..132); a rejection or a throw here is caught by nobody
AskOpenProject ==
  /\ cbPc = "openPrompt"
  /\ events' = Append(events, "askOpenProject")
  /\ \E o \in PromptOutcomes({ADD_CURRENT_WORKSPACE, OPEN_NEW_WINDOW}), hostOk \in BOOLEAN :
       /\ promptLog' = Append(promptLog, [name |-> "askOpenProject", ret |-> o.ret, threw |-> o.threw])
       /\ IF o.threw
          THEN /\ cbRejected' = TRUE
               /\ failures' = failures + 1
               /\ cbPc' = "done"
               /\ UNCHANGED <<locals, wsFolders, hostCalls>>
          ELSE /\ locals' = [locals EXCEPT !.selection = o.ret]
               /\ IF o.ret = Some(ADD_CURRENT_WORKSPACE)
                  THEN LET edit == WorkspaceEdit(UriPath(locals)) IN
                       /\ hostCalls' = Append(hostCalls, [call |-> edit, ok |-> hostOk])
                       /\ wsFolders' = IF hostOk
                                       THEN UpdateWorkspaceFolders(wsFolders, edit.start,
                                                                   edit.deleteCount, <<edit.uri>>)
                                       ELSE wsFolders
                       /\ cbRejected' = ~hostOk
                       /\ failures' = IF hostOk THEN failures ELSE failures + 1
                       /\ cbPc' = "done"
                  ELSE IF o.ret = Some(OPEN_NEW_WINDOW)
                  THEN /\ cbPc' = "awaitOpenFolder"
                       /\ UNCHANGED <<wsFolders, hostCalls, cbRejected, failures>>
                  ELSE /\ cbPc' = "done"
                       /\ UNCHANGED <<wsFolders, hostCalls, cbRejected, failures>>
  /\ UNCHANGED <<pc, requests, inflight, fs, fsLog, messages, initialFolders>>

\* vscode.commands.executeCommand("vscode.openFolder", uriPath, true) settles
\* (line 131)
OpenFolderSettled ==
  /\ cbPc = "awaitOpenFolder"
  /\ \E hostOk \in BOOLEAN :
       /\ hostCalls' = Append(hostCalls, [call |-> OpenFolderCommand(UriPath(locals)), ok |-> hostOk])
       /\ cbRejected' = ~hostOk
       /\ failures' = IF hostOk THEN failures ELSE failures + 1
  /\ cbPc' = "done"
  /\ UNCHANGED <<pc, locals, promptLog, requests, inflight, fs, fsLog, messages,
                 wsFolders, initialFolders, events>>

Next ==
  \/ FetchSupportMatrix
  \/ FetchSettled
  \/ ParseSupportMatrix
  \/ AskForGroupID
  \/ AskForArtifactID
  \/ AskForMPVersion
  \/ AskForMPServer
  \/ AskForJavaSEVersion
  \/ AskForMPSpecifications
  \/ AskForFolder
  \/ SubmitRequest
  \/ DownloadSettled
  \/ ExtractSettled
  \/ DeleteSettled
  \/ AskOpenProject
  \/ OpenFolderSettled

Spec == Init /\ [][Next]_vars

----------------------------------------------------------------------------
(* Observations the properties are stated on *)

InputPrompts ==
  <<"askForGroupID", "askForArtifactID", "askForMPVersion", "askForMPServer",
    "askForJavaSEVersion", "askForMPSpecifications", "askForFolder">>

PayloadKeys ==
  {"groupId", "artifactId", "mpVersion", "supportedServer", "javaSEVersion", "selectedSpecs"}

InputPromptNames == {InputPrompts[k] : k \in DOMAIN InputPrompts}

\* prompt `name` was shown and returned a value other than undefined
Answered(name) ==
  \E j \in DOMAIN promptLog :
    promptLog[j].name = name /\ ~promptLog[j].threw /\ promptLog[j].ret # Undefined

\* the value prompt `name` returned
Answer(name) ==
  LET j == CHOOSE i \in DOMAIN promptLog : promptLog[i].name = name
  IN  promptLog[j].ret[1]

\* prompt number j returned the cancelled sentinel
CancelledAt(j) ==
  /\ promptLog[j].name \in InputPromptNames
  /\ ~promptLog[j].threw
  /\ promptLog[j].ret = Undefined

PostIssued == \E i \in DOMAIN requests : requests[i].method = "POST"

Done(op, ok) == \E i \in DOMAIN fsLog : fsLog[i].op = op /\ fsLog[i].ok = ok

ShownMessages == {messages[i] : i \in DOMAIN messages}

\* <targetDir>/<artifactId>.zip and <targetDir>/<artifactId>, from the answers
ArchiveFile ==
  [dir |-> Answer("askForFolder"), base |-> Answer("askForArtifactID"), ext |-> ".zip"]
ProjectUri ==
  [dir |-> Answer("askForFolder"), base |-> Answer("askForArtifactID"), ext |-> ""]

Occurred(e) == \E i \in DOMAIN events : events[i] = e
\* event b never occurs unless event a occurred earlier
Before(a, b) ==
  \A j \in DOMAIN events : events[j] = b => \E i \in 1..(j - 1) : events[i] = a

WorkflowComplete == pc = "done" /\ cbPc = "done"

----------------------------------------------------------------------------
(* Properties *)

\* C1: no failure of any step escapes the workflow: the callback's promise is
\* never rejected, and every failed step has produced a notification.
C1_NoErrorEscapes == ~cbRejected /\ Len(messages) = failures

\* C2: the POST has been issued only if each of the seven prompts returned a
\* value other than undefined, and its body carries all six fields.
C2_PostOnlyWhenPopulated ==
  \A i \in DOMAIN requests :
    requests[i].method = "POST" =>
      /\ \A k \in DOMAIN InputPrompts : Answered(InputPrompts[k])
      /\ DOMAIN requests[i].body[1] = PayloadKeys
C2_Witness == PostIssued /\ Answer("askForGroupID") = ""

\* C3: once an input prompt has returned undefined the run is over: that
\* prompt is the last one shown, the GET is the only request, nothing is in
\* flight, no file was written, extracted or deleted, and no message is shown.
C3_CancelStopsQuietly ==
  \A j \in DOMAIN promptLog :
    CancelledAt(j) =>
      /\ j = Len(promptLog)
      /\ \A k \in 1..j : promptLog[k].name = InputPrompts[k]
      /\ pc = "done" /\ cbPc = "idle"
      /\ Len(requests) = 1 /\ requests[1].method = "GET"
      /\ inflight = {}
      /\ fs = {} /\ fsLog = <<>>
      /\ messages = <<>>
      /\ hostCalls = <<>> /\ wsFolders = initialFolders
C3_Witness ==
  /\ Len(promptLog) = 5
  /\ CancelledAt(5)
  /\ pc = "done"

\* C4: a failed support-matrix GET shows exactly one message and nothing
\* else happens: the generic message for a status in [400,600), the
\* connectivity message when the fetch itself is rejected.
GetRejected == Occurred("GET.end") /\ locals.mpSupportResponse = Undefined
GetBadStatus ==
  /\ locals.mpSupportResponse # Undefined
  /\ locals.mpSupportResponse[1] \in 400..599
C4_GetFailure ==
  (GetRejected \/ GetBadStatus) =>
    /\ messages = <<IF GetRejected THEN ConnectMsg ELSE GenericMsg>>
    /\ pc = "done" /\ cbPc = "idle"
    /\ promptLog = <<>>
    /\ Len(requests) = 1 /\ requests[1].method = "GET"
    /\ fs = {} /\ fsLog = <<>>
C4_Witness == GetBadStatus /\ locals.mpSupportResponse[1] = 400 /\ pc = "done"

\* C5: the body of the POST is exactly the six fields, each holding the value
\* its own prompt returned.
C5_BodyIsTheAnswers ==
  \A i \in DOMAIN requests :
    requests[i].method = "POST" =>
      requests[i].body =
        Some([groupId |-> Answer("askForGroupID"),
              artifactId |-> Answer("askForArtifactID"),
              mpVersion |-> Answer("askForMPVersion"),
              supportedServer |-> Answer("askForMPServer"),
              javaSEVersion |-> Answer("askForJavaSEVersion"),
              selectedSpecs |-> Answer("askForMPSpecifications")])
C5_Witness ==
  /\ PostIssued
  /\ Answer("askForMPServer") = "PAYARA_MICRO"
  /\ Answer("askForMPSpecifications") = {}

\* C6 as claimed: after a successful download and a successful extraction the
\* archive no longer exists once the workflow has completed.
C6_ArchiveGone ==
  (WorkflowComplete /\ Done("write", TRUE) /\ Done("extract", TRUE)) =>
    ArchiveFile \notin fs

\* C6 as amended: after a successful download and extraction, once the
\* workflow has completed the archive is gone exactly when its deletion
\* succeeded; when the deletion failed the archive is still there and the
\* "Failed to delete file <artifactId>.zip" message has been shown.
C6_ArchiveGoneUnlessDeleteFailed ==
  (WorkflowComplete /\ Done("write", TRUE) /\ Done("extract", TRUE)) =>
    /\ Done("delete", TRUE) \/ Done("delete", FALSE)
    /\ Done("delete", TRUE) => ArchiveFile \notin fs
    /\ Done("delete", FALSE) =>
         /\ ArchiveFile \in fs
         /\ DeleteMsg([base |-> Answer("askForArtifactID"), ext |-> ".zip"]) \in ShownMessages
C6_Witness ==
  /\ WorkflowComplete
  /\ Done("delete", TRUE)
  /\ ArchiveFile \notin fs
  /\ ProjectUri \in fs

\* C7: when extraction fails the extraction message is the one message shown
\* and the callback stops: the archive is not deleted and still exists, the
\* add/open prompt is never shown, and no host-workspace action is applied.
C7_ExtractionFailureStops ==
  Done("extract", FALSE) =>
    /\ messages = <<ExtractMsg>>
    /\ cbPc = "done"
    /\ inflight = {}
    /\ ArchiveFile \in fs
    /\ ~Done("delete", TRUE) /\ ~Done("delete", FALSE)
    /\ \A j \in DOMAIN promptLog : promptLog[j].name # "askOpenProject"
    /\ hostCalls = <<>>
    /\ wsFolders = initialFolders
C7_Witness == Done("extract", FALSE) /\ WorkflowComplete

\* C8: after the final prompt exactly the chosen action is applied: "add"
\* calls updateWorkspaceFolders(0, 0, <targetDir>/<artifactId>) and, when the
\* call goes through, the folders are that URI followed by all the former
\* ones; "open" issues vscode.openFolder on the same URI with the new-window
\* flag and the folders stay as they were; dismissal calls nothing.
FinalPromptAnswered ==
  \E j \in DOMAIN promptLog : promptLog[j].name = "askOpenProject" /\ ~promptLog[j].threw
FinalAnswer ==
  LET j == CHOOSE i \in DOMAIN promptLog : promptLog[i].name = "askOpenProject"
  IN  promptLog[j].ret
C8_ChosenActionOnly ==
  /\ ~FinalPromptAnswered => hostCalls = <<>> /\ wsFolders = initialFolders
  /\ (FinalPromptAnswered /\ cbPc = "done") =>
       IF FinalAnswer = Some(ADD_CURRENT_WORKSPACE)
       THEN /\ Len(hostCalls) = 1
            /\ hostCalls[1].call = [api |-> "updateWorkspaceFolders", start |-> 0,
                                    deleteCount |-> 0, uri |-> ProjectUri]
            /\ wsFolders = IF hostCalls[1].ok
                           THEN <<ProjectUri>> \o initialFolders
                           ELSE initialFolders
       ELSE IF FinalAnswer = Some(OPEN_NEW_WINDOW)
       THEN /\ Len(hostCalls) = 1
            /\ hostCalls[1].call = [api |-> "vscode.openFolder", uri |-> ProjectUri,
                                    newWindow |-> TRUE]
            /\ wsFolders = initialFolders
       ELSE /\ hostCalls = <<>>
            /\ wsFolders = initialFolders
C8_Witness ==
  /\ cbPc = "done"
  /\ FinalPromptAnswered
  /\ FinalAnswer = Some(ADD_CURRENT_WORKSPACE)
  /\ initialFolders # <<>>
  /\ Len(wsFolders) = Len(initialFolders) + 1

\* C9: a failed deletion is reported with the file-name message and nothing
\* more: neither the generic nor the connectivity message is shown, the
\* callback goes on to the add/open prompt, and the answer is acted on.
C9_DeleteFailureNonFatal ==
  Done("delete", FALSE) =>
    /\ messages = <<DeleteMsg([base |-> Answer("askForArtifactID"), ext |-> ".zip"])>>
    /\ cbPc \in {"openPrompt", "awaitOpenFolder", "done"}
    /\ cbPc # "openPrompt" =>
         \E j \in DOMAIN promptLog : promptLog[j].name = "askOpenProject"
    /\ (cbPc = "done" /\ FinalPromptAnswered /\ FinalAnswer # Undefined) =>
         /\ Len(hostCalls) = 1
         /\ hostCalls[1].call.api =
              (IF FinalAnswer = Some(ADD_CURRENT_WORKSPACE)
               THEN "updateWorkspaceFolders" ELSE "vscode.openFolder")
         /\ hostCalls[1].call.uri = ProjectUri
C9_Witness ==
  /\ Done("delete", FALSE)
  /\ cbPc = "done"
  /\ FinalPromptAnswered
  /\ FinalAnswer = Some(OPEN_NEW_WINDOW)
  /\ Len(hostCalls) = 1

\* C10: the steps happen in strict sequence, at most one I/O operation is in
\* flight at any time, and generateProject() has not returned while one is.
C10_StrictSequence ==
  /\ Before("GET.end", "askForGroupID")
  /\ \A k \in 1..(Len(InputPrompts) - 1) : Before(InputPrompts[k], InputPrompts[k + 1])
  /\ Before("askForFolder", "POST.start")
  /\ Before("POST.end", "extract.start")
  /\ Occurred("extract.start") => Done("write", TRUE)
  /\ Before("extract.end", "delete.start")
  /\ Occurred("delete.start") => Done("extract", TRUE)
  /\ Before("delete.end", "askOpenProject")
  /\ Cardinality(inflight) <= 1
  /\ pc = "done" => inflight = {}
====
